---- MODULE Spec2Model ----
(***************************************************************************)
(* File transfer over TCP / TLS: the server's connection acceptor          *)
(* (FileTransferServer.start / stop), its per-connection handler           *)
(* (FileTransferServer._handle_client) and the client's send_file          *)
(* (FileTransferClient.send_file).                                         *)
(*                                                                         *)
(* Bytes are modelled as one-element strings.  "C3" and "A9" are the two   *)
(* bytes of the UTF-8 encoding of the character U+00E9, written "E9" as a  *)
(* character; every other symbol is an ASCII character that encodes to     *)
(* itself.  A lone "C3" or "A9" is not valid UTF-8.                        *)
(***************************************************************************)
EXTENDS Integers, Sequences, FiniteSets, TLC

\* ------------------------------------------------------------------ bounds

\* longest arbitrary byte stream a peer sends to a handler
MaxStream == 4
\* longest payload of a file sent by a well-behaved client (all contents)
MaxPayload == 2
\* longest payload of a client whose size field has two digits
LongPayload == 11
\* largest magnitude of a negative size field
MaxNeg == 2
\* bytes that recv(4096) returns at most
RecvBufSize == 4096

\* ------------------------------------------------------------ Python helpers

Min(a, b) == IF a < b THEN a ELSE b
Max(a, b) == IF a > b THEN a ELSE b

\* every sequence over S of length at most n
SeqsUpTo(S, n) == UNION { [1..k -> S] : k \in 0..n }

\* n copies of x
Rep(x, n) == [i \in 1..n |-> x]

Prefixes(s) == { SubSeq(s, 1, k) : k \in 0..Len(s) }

\* s[:k] of Python, k of either sign
SliceTo(s, k) ==
  IF k >= 0 THEN SubSeq(s, 1, Min(k, Len(s)))
  ELSE SubSeq(s, 1, Max(Len(s) + k, 0))

\* s[k:] of Python, k of either sign
SliceFrom(s, k) ==
  IF k >= 0 THEN SubSeq(s, Min(k, Len(s)) + 1, Len(s))
  ELSE SubSeq(s, Max(Len(s) + k, 0) + 1, Len(s))

\* s.find(b, start): 0-based index of the first b at or after start, else -1
RECURSIVE Find(_, _, _)
Find(s, b, start) ==
  IF start >= Len(s) THEN -1
  ELSE IF s[start + 1] = b THEN start
  ELSE Find(s, b, start + 1)

\* b in s
Contains(s, b) == \E i \in 1..Len(s) : s[i] = b

\* s.split(sep): the fields between the separators, always at least one
RECURSIVE Split(_, _)
Split(s, sep) ==
  LET i == Find(s, sep, 0)
  IN  IF i = -1 THEN << s >>
      ELSE << SliceTo(s, i) >> \o Split(SliceFrom(s, i + 1), sep)

Digits == << "0", "1", "2", "3", "4", "5", "6", "7", "8", "9" >>

IsDigit(ch) == \E d \in 1..10 : Digits[d] = ch

DigitValue(ch) == (CHOOSE d \in 1..10 : Digits[d] = ch) - 1

\* str(n) for n >= 0: the decimal digits of n
RECURSIVE Str(_)
Str(n) ==
  IF n < 10 THEN << Digits[n + 1] >>
  ELSE Str(n \div 10) \o << Digits[(n % 10) + 1] >>

\* value of a non-empty digit string
RECURSIVE DigitsValue(_)
DigitsValue(t) ==
  IF Len(t) = 0 THEN 0
  ELSE 10 * DigitsValue(SubSeq(t, 1, Len(t) - 1)) + DigitValue(t[Len(t)])

AllDigits(t) == Len(t) > 0 /\ \A i \in 1..Len(t) : IsDigit(t[i])

\* int(t) succeeds: an optional sign and at least one digit (the alphabet of
\* the model has no white space, "+" or "_", which int() also accepts)
IntParses(t) ==
  \/ AllDigits(t)
  \/ Len(t) > 1 /\ t[1] = "-" /\ AllDigits(Tail(t))

\* int(t), when it succeeds
IntOf(t) ==
  IF t[1] = "-" THEN 0 - DigitsValue(Tail(t)) ELSE DigitsValue(t)

\* text.encode('utf-8')
RECURSIVE Utf8Encode(_)
Utf8Encode(t) ==
  IF Len(t) = 0 THEN << >>
  ELSE (IF Head(t) = "E9" THEN << "C3", "A9" >> ELSE << Head(t) >>)
       \o Utf8Encode(Tail(t))

\* bytes.decode('utf-8') succeeds
RECURSIVE Utf8Valid(_)
Utf8Valid(b) ==
  IF Len(b) = 0 THEN TRUE
  ELSE IF Head(b) = "C3"
       THEN Len(b) >= 2 /\ b[2] = "A9" /\ Utf8Valid(SliceFrom(b, 2))
  ELSE IF Head(b) = "A9" THEN FALSE
  ELSE Utf8Valid(Tail(b))

\* bytes.decode('utf-8'), when it succeeds
RECURSIVE Utf8Decode(_)
Utf8Decode(b) ==
  IF Len(b) = 0 THEN << >>
  ELSE IF Head(b) = "C3" THEN << "E9" >> \o Utf8Decode(SliceFrom(b, 2))
  ELSE << Head(b) >> \o Utf8Decode(Tail(b))


\* ------------------------------------------------ client: the frame it sends

\* header of send_file: f"{filename}|{filesize}|".encode('utf-8')
HeaderOf(name, filesize) ==
  Utf8Encode(name \o << "|" >> \o Str(filesize) \o << "|" >>)

\* FileSizeOf counting characters instead of bytes: len(content)
FileSizeOf_Chars(content) == Len(content)

\* filesize of send_file: len(content.encode('utf-8'))
FileSizeOf(content) == Len(Utf8Encode(content))

\* the bytes that the two sendall calls of send_file put on the connection
Frame(name, content) ==
  HeaderOf(name, FileSizeOf(content)) \o Utf8Encode(content)

\* ------------------------------------------------ server handler: the codec

\* HeaderEndOf without its "+ 1": the header would end before its second
\* delimiter, which would stay in data
HeaderEndOf_OffByOne(d) == Find(d, "|", Find(d, "|", 0) + 1)

\* data.find(b"|", data.find(b"|") + 1) + 1
HeaderEndOf(d) == Find(d, "|", Find(d, "|", 0) + 1) + 1

\* the header is looked for: not header_received and b"|" in data
HeaderTried(h) == ~h.header_received /\ Contains(h.data, "|")

\* data[:header_end]
HeaderBytes(d) == SliceTo(d, HeaderEndOf(d))

\* header.split('|') of the decoded header
PartsOf(d) == Split(Utf8Decode(HeaderBytes(d)), "|")

\* the header code raises: decode('utf-8') or int(parts[1]) fails
HeaderRaises(h) ==
  /\ HeaderTried(h)
  /\ \/ ~Utf8Valid(HeaderBytes(h.data))
     \/ /\ Len(PartsOf(h.data)) >= 2
        /\ ~IntParses(PartsOf(h.data)[2])

\* the header is accepted: len(parts) >= 2 and int(parts[1]) has a value
HeaderAccepted(h) ==
  /\ HeaderTried(h)
  /\ Utf8Valid(HeaderBytes(h.data))
  /\ Len(PartsOf(h.data)) >= 2
  /\ IntParses(PartsOf(h.data)[2])

\* the handler's locals after the header step of one loop iteration
AfterHeader(h) ==
  IF HeaderAccepted(h)
  THEN [ data            |-> SliceFrom(h.data, HeaderEndOf(h.data)),
         header_received |-> TRUE,
         filename        |-> PartsOf(h.data)[1],
         filesize        |-> IntOf(PartsOf(h.data)[2]) ]
  ELSE h

\* the loop's exit test: header_received and len(data) >= filesize
ReceivedAll(h) == h.header_received /\ Len(h.data) >= h.filesize

\* data += chunk
Appended(h, chunk) == [ h EXCEPT !.data = h.data \o chunk ]

\* the handler's locals as _handle_client sets them before its loop
FreshLocals ==
  [ data |-> << >>, header_received |-> FALSE, filename |-> << >>, filesize |-> 0 ]

\* what f.write(data[:filesize]) writes
Persisted(h) == SliceTo(h.data, h.filesize)

\* a write of b at offset 0 of a file that holds old
Overlay(old, b) == b \o SliceFrom(old, Len(b))


\* ------------------------------------------------------------------- state

Conns == {1, 2}

VARIABLES
  \* the server object
  use_tls,      \* self.use_tls
  running,      \* self.running
  ssock,        \* self.socket: "none", "open", "bound", "listening", "closed"
  spc,          \* where the thread that runs start() is
  stpc,         \* where the thread that calls stop() is
  cur,          \* client_socket of the accept loop's iteration (0: none)
  startFailed,  \* the outer except of start() ran: bind or listen failed
  interrupted,  \* the accept loop left by KeyboardInterrupt
  afterFail,    \* connections accepted after a per-connection failure
  atStop,       \* connections that were accepted and had received no byte
                \* when a call of stop() set running to False
  \* one connection and its handler thread
  hpc,          \* where the handler is
  h,            \* its locals: data, header_received, filename, filesize
  stream,       \* the bytes the peer sends on the connection, in order
  pos,          \* how many of them recv has returned
  peerClosed,   \* the peer has closed its end after sending them
  acks,         \* acknowledgements the handler has sent
  sockClosed,   \* client_socket.close() has run
  herr,         \* the exception the handler's except clause caught:
                \* "none", "header", "recv", "open", "write", "send"
  partial,      \* a recv has left an incomplete header in data
  wrote,        \* the handler's with-open block has completed
  fs            \* received_files: path -> bytes, for the paths that exist

VARIABLES
  \* the client object and its call of send_file
  csock,           \* self.socket: "none", "unconnected", "connected", "closed"
  cpc,             \* where send_file is ("idle": not in a call)
  transfer_stats,  \* self.transfer_stats
  cfile,           \* the call's argument: the path, and the file on disk
  cl,              \* the call's locals: filename, filesize, header, payload,
                   \* start_time, end_time, ack
  now,             \* what time.time() returns, counted from the call
  wire,            \* the bytes the call has sent on the connection
  ret,             \* what the last call returned: "none", "True", "False"
  calls,           \* calls of send_file so far
  sending          \* the time the call has spent inside its two sendall calls

cvars == << csock, cpc, transfer_stats, cfile, cl, now, wire, ret, calls, sending >>

svars ==
  << use_tls, running, ssock, spc, stpc, cur, startFailed, interrupted, afterFail, atStop >>
hvars == << hpc, h, stream, pos, peerClosed, acks, sockClosed, herr, partial, wrote, fs >>

\* Protocol without use_tls: the same tag for both kinds of server
Protocol_OneTag == "TCP"

\* protocol = "TLS" if self.use_tls else "TCP"
Protocol == IF use_tls THEN "TLS" ELSE "TCP"

\* os.path.join(self.output_dir, f"{protocol}_{filename}")
PathOf(protocol, filename) == << protocol, filename >>

\* ------------------------------------------------- _handle_client, stepwise

\* one iteration of the receive loop on a non-empty chunk of k bytes
RecvChunk(c, k) ==
  LET chunk == SubSeq(stream[c], pos[c] + 1, pos[c] + k)
      got   == Appended(h[c], chunk)
      nxt   == AfterHeader(got)
  IN  /\ hpc[c] = "recv"
      /\ k >= 1 /\ k <= RecvBufSize /\ pos[c] + k <= Len(stream[c])
      /\ pos' = [pos EXCEPT ![c] = pos[c] + k]
      /\ IF HeaderRaises(got)
         THEN /\ h' = [h EXCEPT ![c] = got]
              /\ herr' = [herr EXCEPT ![c] = "header"]
              /\ hpc' = [hpc EXCEPT ![c] = "close"]
              /\ partial' = partial
         ELSE /\ h' = [h EXCEPT ![c] = nxt]
              /\ herr' = herr
              /\ partial' = [partial EXCEPT ![c] = partial[c] \/ ~nxt.header_received]
              /\ hpc' = [hpc EXCEPT ![c] = IF ReceivedAll(nxt) THEN "save" ELSE "recv"]
      /\ UNCHANGED << stream, peerClosed, acks, sockClosed, wrote, fs >>

Recv(c) == \E k \in 1..Len(stream[c]) : RecvChunk(c, k) /\ UNCHANGED << svars, cvars >>

\* RecvEof with a timeout: recv gives up on a peer that is silent, and the
\* loop is left although the peer has not closed
RecvEof_OnTimeout(c) ==
  /\ hpc[c] = "recv"
  /\ pos[c] = Len(stream[c])
  /\ hpc' = [hpc EXCEPT ![c] = "save"]
  /\ UNCHANGED << h, stream, pos, peerClosed, acks, sockClosed, herr, partial, wrote, fs >>
  /\ UNCHANGED << svars, cvars >>

\* recv returns b"": the peer has closed and every byte was read; break
RecvEof(c) ==
  /\ hpc[c] = "recv"
  /\ peerClosed[c] /\ pos[c] = Len(stream[c])
  /\ hpc' = [hpc EXCEPT ![c] = "save"]
  /\ UNCHANGED << h, stream, pos, peerClosed, acks, sockClosed, herr, partial, wrote, fs >>
  /\ UNCHANGED << svars, cvars >>

\* RecvFail without the finally clause: the handler returns, nothing closed
RecvFail_NoFinally(c) ==
  /\ hpc[c] = "recv"
  /\ herr' = [herr EXCEPT ![c] = "recv"]
  /\ hpc' = [hpc EXCEPT ![c] = "done"]
  /\ UNCHANGED << h, stream, pos, peerClosed, acks, sockClosed, partial, wrote, fs >>
  /\ UNCHANGED << svars, cvars >>

\* recv raises (connection reset, TLS alert)
RecvFail(c) ==
  /\ hpc[c] = "recv"
  /\ herr' = [herr EXCEPT ![c] = "recv"]
  /\ hpc' = [hpc EXCEPT ![c] = "close"]
  /\ UNCHANGED << h, stream, pos, peerClosed, acks, sockClosed, partial, wrote, fs >>
  /\ UNCHANGED << svars, cvars >>

\* if header_received: false, nothing is saved
NoHeader(c) ==
  /\ hpc[c] = "save"
  /\ ~h[c].header_received
  /\ hpc' = [hpc EXCEPT ![c] = "close"]
  /\ UNCHANGED << h, stream, pos, peerClosed, acks, sockClosed, herr, partial, wrote, fs >>
  /\ UNCHANGED << svars, cvars >>

\* OpenFile without the test of header_received
OpenFile_NoHeaderTest(c) ==
  LET path == PathOf(Protocol, h[c].filename)
  IN  /\ hpc[c] = "save"
      /\ fs' = [q \in DOMAIN fs \cup {path} |-> IF q = path THEN << >> ELSE fs[q]]
      /\ hpc' = [hpc EXCEPT ![c] = "write"]
      /\ UNCHANGED << h, stream, pos, peerClosed, acks, sockClosed, herr, partial, wrote >>
      /\ UNCHANGED << svars, cvars >>

\* open(filepath, 'wb'): the file exists and is empty
OpenFile(c) ==
  LET path == PathOf(Protocol, h[c].filename)
  IN  /\ hpc[c] = "save"
      /\ h[c].header_received
      /\ fs' = [q \in DOMAIN fs \cup {path} |-> IF q = path THEN << >> ELSE fs[q]]
      /\ hpc' = [hpc EXCEPT ![c] = "write"]
      /\ UNCHANGED << h, stream, pos, peerClosed, acks, sockClosed, herr, partial, wrote >>
      /\ UNCHANGED << svars, cvars >>

\* open raises (no such directory, permission denied)
OpenFail(c) ==
  /\ hpc[c] = "save"
  /\ h[c].header_received
  /\ herr' = [herr EXCEPT ![c] = "open"]
  /\ hpc' = [hpc EXCEPT ![c] = "close"]
  /\ UNCHANGED << h, stream, pos, peerClosed, acks, sockClosed, partial, wrote, fs >>
  /\ UNCHANGED << svars, cvars >>

\* f.write(data[:filesize]) and the close of the with block
WriteFile(c) ==
  LET path == PathOf(Protocol, h[c].filename)
  IN  /\ hpc[c] = "write"
      /\ fs' = [fs EXCEPT ![path] = Overlay(fs[path], Persisted(h[c]))]
      /\ wrote' = [wrote EXCEPT ![c] = TRUE]
      /\ hpc' = [hpc EXCEPT ![c] = "ack"]
      /\ UNCHANGED << h, stream, pos, peerClosed, acks, sockClosed, herr, partial >>
      /\ UNCHANGED << svars, cvars >>

\* WriteFail with the exception swallowed: the handler goes on to acknowledge
WriteFail_Swallowed(c) ==
  /\ hpc[c] = "write"
  /\ herr' = [herr EXCEPT ![c] = "write"]
  /\ hpc' = [hpc EXCEPT ![c] = "ack"]
  /\ UNCHANGED << h, stream, pos, peerClosed, acks, sockClosed, partial, wrote, fs >>
  /\ UNCHANGED << svars, cvars >>

\* the write raises (disk full)
WriteFail(c) ==
  /\ hpc[c] = "write"
  /\ herr' = [herr EXCEPT ![c] = "write"]
  /\ hpc' = [hpc EXCEPT ![c] = "close"]
  /\ UNCHANGED << h, stream, pos, peerClosed, acks, sockClosed, partial, wrote, fs >>
  /\ UNCHANGED << svars, cvars >>

\* client_socket.sendall(b"ACK: ...")
SendAck(c) ==
  /\ hpc[c] = "ack"
  /\ acks' = [acks EXCEPT ![c] = acks[c] + 1]
  /\ hpc' = [hpc EXCEPT ![c] = "close"]
  /\ UNCHANGED << h, stream, pos, peerClosed, sockClosed, herr, partial, wrote, fs >>
  /\ UNCHANGED << svars, cvars >>

\* sendall raises (broken pipe)
SendAckFail(c) ==
  /\ hpc[c] = "ack"
  /\ herr' = [herr EXCEPT ![c] = "send"]
  /\ hpc' = [hpc EXCEPT ![c] = "close"]
  /\ UNCHANGED << h, stream, pos, peerClosed, acks, sockClosed, partial, wrote, fs >>
  /\ UNCHANGED << svars, cvars >>

\* finally: client_socket.close(); the handler returns
CloseConn(c) ==
  /\ hpc[c] = "close"
  /\ sockClosed' = [sockClosed EXCEPT ![c] = TRUE]
  /\ hpc' = [hpc EXCEPT ![c] = "done"]
  /\ UNCHANGED << h, stream, pos, peerClosed, acks, herr, partial, wrote, fs >>
  /\ UNCHANGED << svars, cvars >>

\* the peer closes its end of the connection; the handler can see it only
\* in a recv that finds no byte left to read
PeerClose(c) ==
  /\ hpc[c] = "recv" /\ pos[c] = Len(stream[c])
  /\ ~peerClosed[c]
  /\ peerClosed' = [peerClosed EXCEPT ![c] = TRUE]
  /\ UNCHANGED << hpc, h, stream, pos, acks, sockClosed, herr, partial, wrote, fs >>
  /\ UNCHANGED << svars, cvars >>

Handler(c) ==
  \/ Recv(c) \/ RecvEof(c) \/ RecvFail(c)
  \/ NoHeader(c) \/ OpenFile(c) \/ OpenFail(c)
  \/ WriteFile(c) \/ WriteFail(c)
  \/ SendAck(c) \/ SendAckFail(c)
  \/ CloseConn(c)


\* ------------------------------------------------------- start() and stop()

\* a connection has failed: its TLS handshake, or something in its handler
Failed(c) == hpc[c] = "leaked" \/ herr[c] # "none"

\* self.socket = self._create_socket()
StartCreate ==
  /\ spc = "create"
  /\ ssock' = "open"
  /\ spc' = "bind"
  /\ UNCHANGED << use_tls, running, stpc, cur, startFailed, interrupted, afterFail, atStop >>
  /\ UNCHANGED cvars
  /\ UNCHANGED hvars

\* self.socket.bind(...)
StartBind ==
  /\ spc = "bind" /\ ssock = "open"
  /\ ssock' = "bound"
  /\ spc' = "listen"
  /\ UNCHANGED << use_tls, running, stpc, cur, startFailed, interrupted, afterFail, atStop >>
  /\ UNCHANGED cvars
  /\ UNCHANGED hvars

\* self.socket.listen(5)
StartListen ==
  /\ spc = "listen" /\ ssock = "bound"
  /\ ssock' = "listening"
  /\ spc' = "setrun"
  /\ UNCHANGED << use_tls, running, stpc, cur, startFailed, interrupted, afterFail, atStop >>
  /\ UNCHANGED cvars
  /\ UNCHANGED hvars

\* bind or listen raises (the port is taken, or stop() has closed the
\* socket): the outer except, then finally
StartFail ==
  /\ \/ spc = "bind"
     \/ spc = "listen" /\ ssock = "closed"
  /\ startFailed' = TRUE
  /\ spc' = "finally"
  /\ UNCHANGED << use_tls, running, ssock, stpc, cur, interrupted, afterFail, atStop >>
  /\ UNCHANGED cvars
  /\ UNCHANGED hvars

\* self.running = True
SetRunning ==
  /\ spc = "setrun"
  /\ running' = TRUE
  /\ spc' = "loop"
  /\ UNCHANGED << use_tls, ssock, stpc, cur, startFailed, interrupted, afterFail, atStop >>
  /\ UNCHANGED cvars
  /\ UNCHANGED hvars

\* while self.running
LoopTest ==
  /\ spc = "loop"
  /\ spc' = IF running THEN "accept" ELSE "finally"
  /\ UNCHANGED << use_tls, running, ssock, stpc, cur, startFailed, interrupted, afterFail, atStop >>
  /\ UNCHANGED cvars
  /\ UNCHANGED hvars

\* self.socket.accept() returns the connection c
Accept(c) ==
  /\ spc = "accept" /\ ssock = "listening"
  /\ hpc[c] = "queued"
  /\ cur' = c
  /\ hpc' = [hpc EXCEPT ![c] = "accepted"]
  /\ afterFail' = IF \E d \in Conns : Failed(d) THEN afterFail \cup {c} ELSE afterFail
  /\ spc' = IF use_tls THEN "wrap" ELSE "spawn"
  /\ UNCHANGED << use_tls, running, ssock, stpc, startFailed, interrupted, atStop >>
  /\ UNCHANGED cvars
  /\ UNCHANGED << h, stream, pos, peerClosed, acks, sockClosed, herr, partial, wrote, fs >>

\* accept raises because the listening socket is closed: except Exception
AcceptRaise ==
  /\ spc = "accept" /\ ssock = "closed"
  /\ spc' = "loop"
  /\ UNCHANGED << use_tls, running, ssock, stpc, cur, startFailed, interrupted, afterFail, atStop >>
  /\ UNCHANGED cvars
  /\ UNCHANGED hvars

\* context.wrap_socket(client_socket, server_side=True): the handshake
Wrap ==
  /\ spc = "wrap"
  /\ spc' = "spawn"
  /\ UNCHANGED << use_tls, running, ssock, stpc, cur, startFailed, interrupted, afterFail, atStop >>
  /\ UNCHANGED cvars
  /\ UNCHANGED hvars

\* WrapFail with the handshake outside the inner try: the exception leaves
\* the loop for the outer except and finally
WrapFail_LeavesLoop ==
  /\ spc = "wrap"
  /\ hpc' = [hpc EXCEPT ![cur] = "leaked"]
  /\ cur' = 0
  /\ startFailed' = TRUE
  /\ spc' = "finally"
  /\ UNCHANGED << use_tls, running, ssock, stpc, interrupted, afterFail, atStop >>
  /\ UNCHANGED cvars
  /\ UNCHANGED << h, stream, pos, peerClosed, acks, sockClosed, herr, partial, wrote, fs >>

\* the handshake (or the loading of the certificate) raises: except
\* Exception; nothing closes the accepted socket
WrapFail ==
  /\ spc = "wrap"
  /\ hpc' = [hpc EXCEPT ![cur] = "leaked"]
  /\ cur' = 0
  /\ spc' = "loop"
  /\ UNCHANGED << use_tls, running, ssock, stpc, startFailed, interrupted, afterFail, atStop >>
  /\ UNCHANGED cvars
  /\ UNCHANGED << h, stream, pos, peerClosed, acks, sockClosed, herr, partial, wrote, fs >>

\* threading.Thread(target=self._handle_client, ...).start()
Spawn ==
  /\ spc = "spawn"
  /\ hpc' = [hpc EXCEPT ![cur] = "recv"]
  /\ h' = [h EXCEPT ![cur] = FreshLocals]
  /\ cur' = 0
  /\ spc' = "loop"
  /\ UNCHANGED << use_tls, running, ssock, stpc, startFailed, interrupted, afterFail, atStop >>
  /\ UNCHANGED cvars
  /\ UNCHANGED << stream, pos, peerClosed, acks, sockClosed, herr, partial, wrote, fs >>

\* KeyboardInterrupt in the accept loop: break
Interrupt ==
  /\ spc \in { "accept", "wrap", "spawn" }
  /\ interrupted' = TRUE
  /\ hpc' = IF cur = 0 THEN hpc ELSE [hpc EXCEPT ![cur] = "leaked"]
  /\ cur' = 0
  /\ spc' = "finally"
  /\ UNCHANGED << use_tls, running, ssock, stpc, startFailed, afterFail, atStop >>
  /\ UNCHANGED cvars
  /\ UNCHANGED << h, stream, pos, peerClosed, acks, sockClosed, herr, partial, wrote, fs >>

\* the accepted connections that have received no byte yet
NothingReceived ==
  { c \in Conns : hpc[c] \in { "accepted", "recv" } /\ pos[c] = 0 }

\* finally: self.stop(), its first statement
FinallyFlag ==
  /\ spc = "finally"
  /\ running' = FALSE
  /\ atStop' = atStop \cup NothingReceived
  /\ spc' = "fin_close"
  /\ UNCHANGED << use_tls, ssock, stpc, cur, startFailed, interrupted, afterFail >>
  /\ UNCHANGED cvars
  /\ UNCHANGED hvars

\* finally: self.stop(), its second statement; start() returns
FinallyClose ==
  /\ spc = "fin_close"
  /\ ssock' = IF ssock = "none" THEN "none" ELSE "closed"
  /\ spc' = "exited"
  /\ UNCHANGED << use_tls, running, stpc, cur, startFailed, interrupted, afterFail, atStop >>
  /\ UNCHANGED cvars
  /\ UNCHANGED hvars

\* another thread calls stop()
StopCall ==
  /\ stpc = "idle"
  /\ stpc' = "flag"
  /\ UNCHANGED << use_tls, running, ssock, spc, cur, startFailed, interrupted, afterFail, atStop >>
  /\ UNCHANGED cvars
  /\ UNCHANGED hvars

\* stop(): self.running = False
StopFlag ==
  /\ stpc = "flag"
  /\ running' = FALSE
  /\ atStop' = atStop \cup NothingReceived
  /\ stpc' = "close"
  /\ UNCHANGED << use_tls, ssock, spc, cur, startFailed, interrupted, afterFail >>
  /\ UNCHANGED cvars
  /\ UNCHANGED hvars

\* StopClose that also closes every accepted connection, ending its handler
StopClose_ClosesConnections ==
  /\ stpc = "close"
  /\ ssock' = IF ssock = "none" THEN "none" ELSE "closed"
  /\ stpc' = "done"
  /\ sockClosed' = [c \in Conns |-> sockClosed[c] \/ hpc[c] \in { "accepted", "recv", "save", "write", "ack", "close" }]
  /\ hpc' = [c \in Conns |-> IF hpc[c] \in { "accepted", "recv", "save", "write", "ack", "close" }
                               THEN "done" ELSE hpc[c]]
  /\ UNCHANGED << use_tls, running, spc, cur, startFailed, interrupted, afterFail, atStop >>
  /\ UNCHANGED cvars
  /\ UNCHANGED << h, stream, pos, peerClosed, acks, herr, partial, wrote, fs >>

\* stop(): if self.socket: self.socket.close(); stop() returns
StopClose ==
  /\ stpc = "close"
  /\ ssock' = IF ssock = "none" THEN "none" ELSE "closed"
  /\ stpc' = "done"
  /\ UNCHANGED << use_tls, running, spc, cur, startFailed, interrupted, afterFail, atStop >>
  /\ UNCHANGED cvars
  /\ UNCHANGED hvars

\* a client connects to the listening socket and waits to be accepted
ClientConnect(c) ==
  /\ hpc[c] = "absent" /\ ssock = "listening"
  /\ hpc' = [hpc EXCEPT ![c] = "queued"]
  /\ UNCHANGED << svars, cvars >>
  /\ UNCHANGED << h, stream, pos, peerClosed, acks, sockClosed, herr, partial, wrote, fs >>

Start ==
  \/ StartCreate \/ StartBind \/ StartListen \/ StartFail \/ SetRunning
  \/ LoopTest \/ (\E c \in Conns : Accept(c)) \/ AcceptRaise
  \/ Wrap \/ WrapFail \/ Spawn \/ Interrupt
  \/ FinallyFlag \/ FinallyClose

Stop == StopCall \/ StopFlag \/ StopClose

\* ---------------------------------------------------- the client, stepwise

\* bounds of the client's runs
MaxDelay == 1
MaxCalls == 2

\* os.path.basename(path): what follows the last "/"
RECURSIVE Basename(_)
Basename(path) ==
  IF Contains(path, "/") THEN Basename(SliceFrom(path, Find(path, "/", 0) + 1))
  ELSE path

\* newline translation of a file read in text mode: "\r\n" and "\r" are "\n"
RECURSIVE Newlines(_)
Newlines(t) ==
  IF Len(t) = 0 THEN << >>
  ELSE IF Head(t) = "CR"
       THEN << "LF" >> \o Newlines(IF Len(t) >= 2 /\ t[2] = "LF"
                                   THEN SliceFrom(t, 2) ELSE Tail(t))
  ELSE << Head(t) >> \o Newlines(Tail(t))

\* f.read() of open(filepath, 'r', encoding='utf-8'), when it succeeds
ReadText(bytes) == Newlines(Utf8Decode(bytes))

\* self.transfer_stats of __init__
FreshStats == [ bytes_sent |-> 0, transfer_time |-> 0, packet_overhead |-> 0 ]

NoLocals ==
  [ filename |-> << >>, filesize |-> 0, header |-> << >>, payload |-> << >>,
    start_time |-> 0, end_time |-> 0, ack |-> "none" ]

NoFile == [ path |-> << >>, exists |-> FALSE, bytes |-> << >> ]

\* the paths a caller gives, and the bytes of the files on disk
ClientPaths == { << "a" >>, << "d", "/", "E9" >>, << "a", "|", "b" >> }
ClientFileBytes ==
  SeqsUpTo({ "a", "C3", "A9", "CR" }, MaxPayload)
    \cup { Rep("a", n) : n \in 10..LongPayload }

\* FileTransferClient(...): no socket, zero statistics
ClientFresh ==
  /\ csock = "none"
  /\ cpc = "idle"
  /\ transfer_stats = FreshStats
  /\ cfile = NoFile
  /\ cl = NoLocals
  /\ now = 0
  /\ wire = << >>
  /\ ret = "none"
  /\ calls = 0
  /\ sending = 0

\* connect_plain / connect_tls: self.socket is set, then connect succeeds
Connect ==
  /\ cpc = "idle" /\ csock = "none"
  /\ csock' = "connected"
  /\ UNCHANGED << cpc, transfer_stats, cfile, cl, now, wire, ret, calls, sending >>
  /\ UNCHANGED << svars, hvars >>

\* connect_plain / connect_tls: self.socket is set, then connect (or the
\* handshake in it) raises; the socket stays, unconnected and open
ConnectFail ==
  /\ cpc = "idle" /\ csock = "none"
  /\ csock' = "unconnected"
  /\ UNCHANGED << cpc, transfer_stats, cfile, cl, now, wire, ret, calls, sending >>
  /\ UNCHANGED << svars, hvars >>

\* close(): if self.socket: self.socket.close()
Close ==
  /\ cpc = "idle" /\ csock # "none"
  /\ csock' = "closed"
  /\ UNCHANGED << cpc, transfer_stats, cfile, cl, now, wire, ret, calls, sending >>
  /\ UNCHANGED << svars, hvars >>

\* send_file(filepath) is called; its two tests before the try
SendFileCall ==
  /\ cpc = "idle" /\ calls < MaxCalls
  /\ calls' = calls + 1
  /\ \E p \in ClientPaths, e \in BOOLEAN, b \in ClientFileBytes :
       /\ e \/ b = << >>
       /\ cfile' = [ path |-> p, exists |-> e, bytes |-> b ]
       /\ IF csock = "none" \/ ~e
          THEN cpc' = "idle" /\ ret' = "False"
          ELSE cpc' = "read" /\ ret' = "none"
  /\ cl' = NoLocals
  /\ wire' = << >>
  /\ now' = 0
  /\ sending' = 0
  /\ UNCHANGED << csock, transfer_stats >>
  /\ UNCHANGED << svars, hvars >>

\* the file is read and filename, filesize and header are computed
ReadFile ==
  /\ cpc = "read"
  /\ Utf8Valid(cfile.bytes)
  /\ LET content == ReadText(cfile.bytes)
         name    == Basename(cfile.path)
     IN  cl' = [ cl EXCEPT !.filename = name,
                           !.filesize = FileSizeOf(content),
                           !.payload  = Utf8Encode(content),
                           !.header   = HeaderOf(name, FileSizeOf(content)) ]
  /\ cpc' = "t0"
  /\ UNCHANGED << csock, transfer_stats, cfile, now, wire, ret, calls, sending >>
  /\ UNCHANGED << svars, hvars >>

\* the read raises (the file is not UTF-8, or cannot be opened): return False
ReadFail ==
  /\ cpc = "read"
  /\ cpc' = "idle"
  /\ ret' = "False"
  /\ UNCHANGED << csock, transfer_stats, cfile, cl, now, wire, calls, sending >>
  /\ UNCHANGED << svars, hvars >>

\* start_time = time.time()
TimerStart ==
  /\ cpc = "t0"
  /\ cl' = [ cl EXCEPT !.start_time = now ]
  /\ cpc' = "send_hdr"
  /\ UNCHANGED << csock, transfer_stats, cfile, now, wire, ret, calls, sending >>
  /\ UNCHANGED << svars, hvars >>

\* self.socket.sendall(header)
SendHeader ==
  /\ cpc = "send_hdr" /\ csock = "connected"
  /\ \E d \in 0..MaxDelay : now' = now + d /\ sending' = sending + d
  /\ wire' = wire \o cl.header
  /\ cpc' = "send_body"
  /\ UNCHANGED << csock, transfer_stats, cfile, cl, ret, calls >>
  /\ UNCHANGED << svars, hvars >>

\* self.socket.sendall(content.encode('utf-8'))
SendContent ==
  /\ cpc = "send_body"
  /\ \E d \in 0..MaxDelay : now' = now + d /\ sending' = sending + d
  /\ wire' = wire \o cl.payload
  /\ cpc' = "t1"
  /\ UNCHANGED << csock, transfer_stats, cfile, cl, ret, calls >>
  /\ UNCHANGED << svars, hvars >>

\* a sendall raises (the socket is not connected, or the peer is gone)
SendFail ==
  /\ cpc \in { "send_hdr", "send_body" }
  /\ cpc' = "idle"
  /\ ret' = "False"
  /\ UNCHANGED << csock, transfer_stats, cfile, cl, now, wire, calls, sending >>
  /\ UNCHANGED << svars, hvars >>

\* end_time = time.time()
TimerStop ==
  /\ cpc = "t1"
  /\ cl' = [ cl EXCEPT !.end_time = now ]
  /\ cpc' = "recv_ack"
  /\ UNCHANGED << csock, transfer_stats, cfile, now, wire, ret, calls, sending >>
  /\ UNCHANGED << svars, hvars >>

\* ack = self.socket.recv(1024).decode('utf-8'): the server's message, or
\* nothing when the server closed without one
RecvAck ==
  /\ cpc = "recv_ack"
  /\ \E d \in 0..MaxDelay : now' = now + d
  /\ \E a \in { "ack", "empty" } : cl' = [ cl EXCEPT !.ack = a ]
  /\ cpc' = "stats"
  /\ UNCHANGED << csock, transfer_stats, cfile, wire, ret, calls, sending >>
  /\ UNCHANGED << svars, hvars >>

\* RecvAckFail with the statistics written before the acknowledgement is
\* read: the failed call leaves its own bytes_sent and transfer_time behind
RecvAckFail_StatsWritten ==
  /\ cpc = "recv_ack"
  /\ transfer_stats' =
       [ transfer_stats EXCEPT !.bytes_sent = Len(cl.header) + cl.filesize,
                               !.transfer_time = cl.end_time - cl.start_time ]
  /\ cpc' = "idle"
  /\ ret' = "False"
  /\ UNCHANGED << csock, cfile, cl, now, wire, calls, sending >>
  /\ UNCHANGED << svars, hvars >>

\* the recv raises (connection reset): return False
RecvAckFail ==
  /\ cpc = "recv_ack"
  /\ cpc' = "idle"
  /\ ret' = "False"
  /\ UNCHANGED << csock, transfer_stats, cfile, cl, now, wire, calls, sending >>
  /\ UNCHANGED << svars, hvars >>

\* UpdateStats with the elapsed time taken after the acknowledgement was
\* read: time.time() - start_time
UpdateStats_AfterAck ==
  /\ cpc = "stats"
  /\ transfer_stats' =
       [ transfer_stats EXCEPT !.bytes_sent = Len(cl.header) + cl.filesize,
                               !.transfer_time = now - cl.start_time ]
  /\ cpc' = "idle"
  /\ ret' = "True"
  /\ UNCHANGED << csock, cfile, cl, now, wire, calls, sending >>
  /\ UNCHANGED << svars, hvars >>

\* bytes_sent and transfer_time are set; return True
UpdateStats ==
  /\ cpc = "stats"
  /\ transfer_stats' =
       [ transfer_stats EXCEPT !.bytes_sent = Len(cl.header) + cl.filesize,
                               !.transfer_time = cl.end_time - cl.start_time ]
  /\ cpc' = "idle"
  /\ ret' = "True"
  /\ UNCHANGED << csock, cfile, cl, now, wire, calls, sending >>
  /\ UNCHANGED << svars, hvars >>

SendFile ==
  \/ SendFileCall \/ ReadFile \/ ReadFail \/ TimerStart
  \/ SendHeader \/ SendContent \/ SendFail \/ TimerStop
  \/ RecvAck \/ RecvAckFail \/ UpdateStats

\* --------------------------------------------- one handler, any byte stream

\* bytes of an arbitrary peer: a letter, the delimiter, a digit, a sign and
\* a byte that is not UTF-8 on its own
StreamAlphabet == { "a", "|", "1", "-", "C3" }

\* file names and file contents of a client that runs send_file
ClientNames == { << "a" >>, << "E9" >>, << "b", "a" >> }
ClientContents ==
  SeqsUpTo({ "a", "|", "E9" }, MaxPayload)
    \cup { Rep("a", n) : n \in 10..LongPayload }

ClientFiles == ClientNames \X ClientContents

\* each file with its frame and with the bytes of its content
FramedFiles ==
  { [ name |-> f[1], frame |-> Frame(f[1], f[2]), payload |-> Utf8Encode(f[2]) ] :
      f \in ClientFiles }

\* what a client sends, whole or cut short by the client's death
ClientStreams == UNION { Prefixes(f.frame) : f \in FramedFiles }

\* a well-formed frame whose size field is negative, with more or fewer bytes
NegStreams ==
  { Utf8Encode(n) \o << "|", "-" >> \o Str(k) \o << "|" >> \o Utf8Encode(t) :
      n \in ClientNames, k \in 1..MaxNeg, t \in SeqsUpTo({ "a", "|", "E9" }, MaxPayload) }

\* a frame followed by more bytes on the same connection: another frame, or
\* bytes with delimiters in them
PipelinedStreams ==
  { Frame(n, t) \o more :
      n \in ClientNames, t \in SeqsUpTo({ "a", "|" }, 1),
      more \in { Frame(<< "b" >>, u) : u \in SeqsUpTo({ "a" }, 1) }
                 \cup { << "|" >>, << "a", "|", "|" >> } }

HandlerStreams ==
  SeqsUpTo(StreamAlphabet, MaxStream) \cup ClientStreams \cup NegStreams
    \cup PipelinedStreams

HandlerInit ==
  /\ use_tls \in BOOLEAN
  /\ running = TRUE
  /\ ssock = "listening"
  /\ spc = "loop"
  /\ stpc = "idle"
  /\ cur = 0
  /\ startFailed = FALSE
  /\ interrupted = FALSE
  /\ afterFail = { }
  /\ atStop = { }
  /\ hpc = [c \in Conns |-> IF c = 1 THEN "recv" ELSE "absent"]
  /\ h = [c \in Conns |-> FreshLocals]
  /\ \E s \in HandlerStreams : stream = [c \in Conns |-> IF c = 1 THEN s ELSE << >>]
  /\ pos = [c \in Conns |-> 0]
  /\ peerClosed = [c \in Conns |-> FALSE]
  /\ acks = [c \in Conns |-> 0]
  /\ sockClosed = [c \in Conns |-> FALSE]
  /\ herr = [c \in Conns |-> "none"]
  /\ partial = [c \in Conns |-> FALSE]
  /\ wrote = [c \in Conns |-> FALSE]
  /\ fs = << >>
  /\ ClientFresh

vars == << svars, hvars, cvars >>

HandlerNext == Handler(1) \/ PeerClose(1)

HandlerSpec == HandlerInit /\ [][HandlerNext]_vars

\* ------------------------------------------- the server and its connections

\* what each peer of the server sends.  The first: a file, or a header whose
\* size is no integer.  The second: a shorter file of the same name, or a
\* header that stops after its first delimiter.
ServerStreams ==
  << { Frame(<< "a" >>, << "a", "a" >>),
       << "a", "|", "x", "|" >> },
     { Frame(<< "a" >>, << "b" >>),
       << "b", "|" >> } >>

Init ==
  /\ use_tls \in BOOLEAN
  /\ running = FALSE
  /\ ssock = "none"
  /\ spc = "create"
  /\ stpc = "idle"
  /\ cur = 0
  /\ startFailed = FALSE
  /\ interrupted = FALSE
  /\ afterFail = { }
  /\ atStop = { }
  /\ hpc = [c \in Conns |-> "absent"]
  /\ h = [c \in Conns |-> FreshLocals]
  /\ stream \in [Conns -> UNION { ServerStreams[c] : c \in Conns }]
  /\ \A c \in Conns : stream[c] \in ServerStreams[c]
  /\ pos = [c \in Conns |-> 0]
  /\ peerClosed = [c \in Conns |-> FALSE]
  /\ acks = [c \in Conns |-> 0]
  /\ sockClosed = [c \in Conns |-> FALSE]
  /\ herr = [c \in Conns |-> "none"]
  /\ partial = [c \in Conns |-> FALSE]
  /\ wrote = [c \in Conns |-> FALSE]
  /\ fs = << >>
  /\ ClientFresh

Next ==
  \/ Start
  \/ Stop
  \/ \E c \in Conns : ClientConnect(c) \/ Handler(c) \/ PeerClose(c)

Spec == Init /\ [][Next]_vars

\* ------------------------------------------------------- the client's calls

\* a server that nobody has started, and no connection to it
ServerIdle ==
  /\ use_tls = FALSE
  /\ running = FALSE
  /\ ssock = "none"
  /\ spc = "create"
  /\ stpc = "idle"
  /\ cur = 0
  /\ startFailed = FALSE
  /\ interrupted = FALSE
  /\ afterFail = { }
  /\ atStop = { }
  /\ hpc = [c \in Conns |-> "absent"]
  /\ h = [c \in Conns |-> FreshLocals]
  /\ stream = [c \in Conns |-> << >>]
  /\ pos = [c \in Conns |-> 0]
  /\ peerClosed = [c \in Conns |-> FALSE]
  /\ acks = [c \in Conns |-> 0]
  /\ sockClosed = [c \in Conns |-> FALSE]
  /\ herr = [c \in Conns |-> "none"]
  /\ partial = [c \in Conns |-> FALSE]
  /\ wrote = [c \in Conns |-> FALSE]
  /\ fs = << >>

ClientInit == ClientFresh /\ ServerIdle

ClientNext == Connect \/ ConnectFail \/ Close \/ SendFile

ClientSpec == ClientInit /\ [][ClientNext]_vars

\* ------------------------------------- the two listeners, handler by handler

\* main() starts a plain server and a TLS server that share received_files.
\* Connection 1 is a connection of the TLS server and connection 2 one of the
\* plain server; the server variables are those of the server whose handler
\* thread is running, and Me is the connection of that thread.
Me == IF use_tls THEN 1 ELSE 2

Twin(c) == 3 - c

\* how far a handler is: the bytes it has received, the close of its peer
\* that it can see, and its place in _handle_client
Stage(p) ==
  CASE p = "recv" -> 0 [] p = "save" -> 1 [] p = "write" -> 2
    [] p = "ack" -> 3 [] p = "close" -> 4 [] p = "done" -> 5

Progress(c) == pos[c] + (IF peerClosed[c] THEN 1 ELSE 0) + Stage(hpc[c])

\* the scheduler passes from a thread of one server to a thread of the other
SwitchServer ==
  /\ use_tls' = ~use_tls
  /\ UNCHANGED << running, ssock, spc, stpc, cur, startFailed, interrupted, afterFail, atStop >>
  /\ UNCHANGED cvars
  /\ UNCHANGED hvars

\* failures that come from outside the handler: of recv, open, write, sendall
EnvErrors == { "recv", "open", "write", "send" }

\* the running handler takes a step.  The two peers send the same bytes in
\* the same chunks and the two handlers meet the same failures of their
\* sockets and files: a handler that is ahead of the other waits for it, and
\* the step of a handler that is behind has the chunk, the close of the peer
\* and the failure that the step of the other had.
TwinStep ==
  /\ Progress(Me) <= Progress(Twin(Me))
  /\ (Handler(Me) \/ PeerClose(Me))
  /\ Progress(Me) < Progress(Twin(Me)) =>
       /\ pos'[Me] = pos[Twin(Me)]
       /\ peerClosed'[Me] = peerClosed[Twin(Me)]
       /\ (herr'[Me] \in EnvErrors \/ herr[Twin(Me)] \in EnvErrors) =>
            herr'[Me] = herr[Twin(Me)]

\* the bytes both peers send
TwinStreams ==
  SeqsUpTo(StreamAlphabet, MaxStream - 1)
    \cup { Frame(n, t) : n \in ClientNames, t \in SeqsUpTo({ "a", "E9" }, MaxPayload) }
    \cup NegStreams

TwinInit ==
  /\ use_tls \in BOOLEAN
  /\ running = TRUE
  /\ ssock = "listening"
  /\ spc = "loop"
  /\ stpc = "idle"
  /\ cur = 0
  /\ startFailed = FALSE
  /\ interrupted = FALSE
  /\ afterFail = { }
  /\ atStop = { }
  /\ hpc = [c \in Conns |-> "recv"]
  /\ h = [c \in Conns |-> FreshLocals]
  /\ \E s \in TwinStreams : stream = [c \in Conns |-> s]
  /\ pos = [c \in Conns |-> 0]
  /\ peerClosed = [c \in Conns |-> FALSE]
  /\ acks = [c \in Conns |-> 0]
  /\ sockClosed = [c \in Conns |-> FALSE]
  /\ herr = [c \in Conns |-> "none"]
  /\ partial = [c \in Conns |-> FALSE]
  /\ wrote = [c \in Conns |-> FALSE]
  /\ fs = << >>
  /\ ClientFresh

TwinNext == SwitchServer \/ TwinStep

TwinSpec == TwinInit /\ [][TwinNext]_vars


\* ------------------------------------------------------ claims on a handler

\* number of delimiters in a byte string
NumPipes(s) == Cardinality({ i \in 1..Len(s) : s[i] = "|" })

\* the bytes between the first and the second delimiter
SizeField(s) == Split(s, "|")[2]

\* fewer than two delimiters, or a size field that is no integer
Malformed(s) == NumPipes(s) < 2 \/ ~IntParses(SizeField(s))

\* two delimiters and a size field that is a negative integer
NegativeSize(s) ==
  NumPipes(s) >= 2 /\ IntParses(SizeField(s)) /\ IntOf(SizeField(s)) < 0

\* C1: whatever the chunks in which the frame name|n|payload of send_file
\* arrives, the handler raises no header error, never waits for more than
\* was sent, leaves its loop with filename = name and filesize = n, and the
\* file it writes holds exactly the n payload bytes.
C1_FramingChunkIndependent ==
  \A f \in FramedFiles :
    stream[1] = f.frame =>
      /\ herr[1] # "header"
      /\ hpc[1] = "recv" => pos[1] < Len(stream[1])
      /\ (hpc[1] \in { "save", "write", "ack" } \/ wrote[1]) =>
           /\ h[1].header_received
           /\ h[1].filename = f.name
           /\ h[1].filesize = Len(f.payload)
           /\ Persisted(h[1]) = f.payload
      /\ wrote[1] => fs[PathOf(Protocol, f.name)] = f.payload

\* a frame with a two-digit size and a two-byte name was delivered with a
\* chunk boundary inside its header, and was saved
C1_Witness ==
  /\ stream[1] = Frame(<< "E9" >>, Rep("a", 10))
  /\ partial[1]
  /\ wrote[1]
  /\ hpc[1] = "done"

\* C2: a handler that left its loop with a parsed header and fewer than
\* filesize payload bytes (the peer closed early) writes no file and sends
\* no acknowledgement.
C2_TruncatedIsError ==
  (hpc[1] # "recv" /\ h[1].header_received /\ Len(h[1].data) < h[1].filesize) =>
    /\ hpc[1] \notin { "write", "ack" }
    /\ ~wrote[1]
    /\ acks[1] = 0
    /\ fs = << >>

\* C3: on a byte stream with fewer than two delimiters, or with a size field
\* that is no integer, the handler accepts no name and size, opens and writes
\* no file, sends no acknowledgement, and its only way out is the close of
\* the connection.
C3_MalformedNeverPersisted ==
  Malformed(stream[1]) =>
    /\ ~h[1].header_received
    /\ hpc[1] \in { "recv", "save", "close", "done" }
    /\ fs = << >>
    /\ ~wrote[1]
    /\ acks[1] = 0
    /\ hpc[1] = "done" => sockClosed[1]

\* a stream with two delimiters and a non-integer size was read to its end,
\* int() raised and the handler returned
C3_Witness ==
  /\ NumPipes(stream[1]) >= 2
  /\ Malformed(stream[1])
  /\ herr[1] = "header"
  /\ hpc[1] = "done"
  /\ sockClosed[1]

\* C4: a header whose size field is a negative integer is not accepted: no
\* header_received, no file, no acknowledgement.
C4_NegativeSizeRejected ==
  NegativeSize(stream[1]) =>
    /\ ~h[1].header_received
    /\ fs = << >>
    /\ acks[1] = 0

\* C5: the acknowledgement is sent at most once, only after the file was
\* written with the bytes to persist and before the close; a failed open or
\* write sends none; the close is the handler's last step.
C5_AckAfterPersistBeforeClose ==
  /\ acks[1] <= 1
  /\ hpc[1] = "ack" => (wrote[1] /\ acks[1] = 0 /\ ~sockClosed[1])
  /\ acks[1] = 1 =>
       /\ wrote[1]
       /\ hpc[1] \in { "close", "done" }
       /\ fs[PathOf(Protocol, h[1].filename)] = Persisted(h[1])
  /\ herr[1] \in { "header", "recv", "open", "write" } => acks[1] = 0
  /\ sockClosed[1] => hpc[1] = "done"

\* the file was written, the acknowledgement sent, the connection closed
C5_Witness ==
  /\ wrote[1] /\ acks[1] = 1 /\ sockClosed[1] /\ hpc[1] = "done"
  /\ Len(Persisted(h[1])) > 0

\* C6: a handler that has returned has closed its connection, and every
\* failure, in whatever state, leads to the close and nowhere else.
C6_AlwaysClosed ==
  /\ hpc[1] = "done" => sockClosed[1]
  /\ herr[1] # "none" => hpc[1] \in { "close", "done" }
  /\ hpc[1] \in { "recv", "save", "write", "ack", "close", "done" }

\* a handler whose file write failed has returned with the connection closed
C6_Witness ==
  /\ herr[1] = "write" /\ hpc[1] = "done" /\ sockClosed[1]

\* the handler has a header, fewer payload bytes than its size, has read every
\* byte the peer sent, and the peer keeps the connection open
Stalled ==
  /\ hpc[1] = "recv"
  /\ h[1].header_received
  /\ Len(h[1].data) < h[1].filesize
  /\ pos[1] = Len(stream[1])
  /\ ~peerClosed[1]

\* C16: the handler leaves its receive loop only with a parsed header and at
\* least filesize payload bytes, or after the peer has closed and every byte
\* was read, or by an error of recv or of the header code; and from a state
\* in which the peer has sent a header and fewer than filesize bytes and is
\* silent with the connection open, nothing happens but the close of the
\* peer or a failure of recv: there is no timeout step, the handler stays in
\* its loop.
C16_LoopExitsOnly ==
  [][ /\ (hpc[1] = "recv" /\ hpc'[1] # "recv") =>
           \/ herr'[1] = "none" /\ hpc'[1] = "save" /\ ReceivedAll(h'[1])
           \/ herr'[1] = "none" /\ hpc'[1] = "save"
                /\ peerClosed[1] /\ pos[1] = Len(stream[1]) /\ h'[1] = h[1]
           \/ herr'[1] \in { "recv", "header" } /\ hpc'[1] = "close"
      /\ Stalled =>
           \/ peerClosed'[1] /\ hpc'[1] = "recv" /\ h'[1] = h[1]
           \/ herr'[1] = "recv"
    ]_vars

\* the peer sent a|2|a and is silent: the handler has the header and one of
\* two payload bytes, and waits
C16_Witness ==
  /\ Stalled
  /\ stream[1] = << "a", "|", "2", "|", "a" >>
  /\ h[1].filesize = 2 /\ h[1].data = << "a" >>

\* the bytes of a stream after its second delimiter
PayloadOf(s) == SliceFrom(s, HeaderEndOf(s))

\* C17: the handler parses one header per connection and serves one frame:
\* once it has a header, its name and size are those of the first two fields
\* of the stream and its buffer holds the bytes received after the second
\* delimiter, unparsed, whatever delimiters or headers are among them; at
\* most one file exists; and the file written holds at most filesize bytes,
\* the first bytes of the payload.
C17_OneFramePerConnection ==
  /\ h[1].header_received =>
       /\ NumPipes(stream[1]) >= 2
       /\ h[1].filename = Utf8Decode(Split(stream[1], "|")[1])
       /\ h[1].filesize = IntOf(SizeField(stream[1]))
       /\ h[1].data = SubSeq(stream[1], HeaderEndOf(stream[1]) + 1, pos[1])
  /\ Cardinality(DOMAIN fs) <= 1
  /\ wrote[1] =>
       LET path == PathOf(Protocol, h[1].filename)
       IN  /\ path \in DOMAIN fs
           /\ Len(fs[path]) <= Max(h[1].filesize, 0)
           /\ fs[path] = SliceTo(PayloadOf(stream[1]), Len(fs[path]))


\* ----------------------------------------------------- claims on the server

\* C7: no failure of one connection ends the accept loop: start() leaves its
\* loop only after a failed bind or listen, a KeyboardInterrupt or a call of
\* stop(); and as long as stop() has not been called and no KeyboardInterrupt
\* has come, a server with a failed connection is still in its loop, running,
\* with its socket listening.
C7_FailuresKeepAcceptor ==
  /\ spc \in { "finally", "fin_close", "exited" } =>
       (startFailed \/ interrupted \/ stpc # "idle")
  /\ ((\E c \in Conns : Failed(c)) /\ stpc = "idle" /\ ~interrupted) =>
       /\ spc \in { "loop", "accept", "wrap", "spawn" }
       /\ running
       /\ ssock = "listening"

\* the first connection's header was rejected; the second connection was
\* accepted after that, served and acknowledged
C7_Witness ==
  /\ herr[1] = "header"
  /\ 2 \in afterFail
  /\ acks[2] = 1
  /\ hpc[2] = "done"

\* C8: once stop() has returned, the accept loop accepts no connection.
C8_StopEndsAccepting ==
  [][stpc = "done" => \A c \in Conns : ~(hpc[c] = "queued" /\ hpc'[c] = "accepted")]_vars

\* the bytes in the buffer of c are bytes of its own connection, in order
OwnBytes(c) ==
  \E k \in 0..pos[c] : h[c].data = SubSeq(stream[c], k + 1, pos[c])

\* C9: the buffer of each handler holds bytes of its own connection only, and
\* once a handler has written its file, the file at its path holds exactly
\* the bytes that handler persisted.
C9_NoCrossContamination ==
  \A c \in Conns :
    /\ OwnBytes(c)
    /\ (wrote[c] /\ hpc[c] \in { "ack", "close", "done" }) =>
         fs[PathOf(Protocol, h[c].filename)] = Persisted(h[c])


\* ----------------------------------------------------- claims on the client

\* number of decimal digits of n, for the n of the model
DecimalWidth(n) == IF n < 10 THEN 1 ELSE IF n < 100 THEN 2 ELSE 3

\* C10: after a call of send_file that returned True for a file named name
\* with a payload of p bytes, bytes_sent is the byte length of name|p| plus
\* p, which is the number of bytes the call put on the connection; and
\* packet_overhead is 0 in every state.
C10_BytesSentAndOverhead ==
  /\ transfer_stats.packet_overhead = 0
  /\ (cpc = "idle" /\ ret = "True") =>
       LET name == Utf8Encode(Basename(cfile.path))
           p    == Len(Utf8Encode(ReadText(cfile.bytes)))
       IN  /\ transfer_stats.bytes_sent = Len(name) + 1 + DecimalWidth(p) + 1 + p
           /\ transfer_stats.bytes_sent = Len(wire)
           /\ Len(cl.payload) = p

\* a file of ten bytes with a two-byte name was sent and the call returned
\* True: 2 + 1 + 2 + 1 bytes of header and 10 of payload
C10_Witness ==
  /\ cpc = "idle" /\ ret = "True"
  /\ cfile.path = << "d", "/", "E9" >>
  /\ cfile.bytes = Rep("a", 10)
  /\ transfer_stats.bytes_sent = 16

\* C11: a call of send_file returns True, with its statistics recorded, only
\* when its read of the acknowledgement returned a non-empty response: a
\* call whose read returned nothing (the server closed without a message)
\* does not report success.
C11_SuccessIffAck ==
  /\ cpc = "stats" => cl.ack = "ack"
  /\ (cpc = "idle" /\ ret = "True") => cl.ack = "ack"

\* the steps of a call of send_file, as pairs of places in its code
SendFileSteps ==
  { << "idle", "read" >>, << "read", "t0" >>, << "t0", "send_hdr" >>,
    << "send_hdr", "send_body" >>, << "send_body", "t1" >>,
    << "t1", "recv_ack" >>, << "recv_ack", "stats" >>, << "stats", "idle" >>,
    << "read", "idle" >>, << "send_hdr", "idle" >>, << "send_body", "idle" >>,
    << "recv_ack", "idle" >> }

\* C12: a call of send_file goes through timer start, header write, payload
\* write, timer stop, acknowledgement read and statistics in this order: the
\* start time is taken only at the timer start, bytes go on the connection
\* only in the two writes (the header, then the payload), the end time is
\* taken only at the timer stop, the acknowledgement is read only once, after
\* the timer stop, and the statistics change only in the last step; the
\* transfer_time a successful call records is the time spent inside the two
\* sendall calls, whatever the wait for the acknowledgement.
C12_OrderAndElapsedTime ==
  [][ /\ cpc' # cpc => << cpc, cpc' >> \in SendFileSteps
      /\ cpc # "idle" =>
           /\ cl'.start_time # cl.start_time => cpc = "t0"
           /\ wire' # wire =>
                \/ cpc = "send_hdr" /\ wire = << >> /\ wire' = cl.header
                \/ cpc = "send_body" /\ wire = cl.header /\ wire' = cl.header \o cl.payload
           /\ cl'.end_time # cl.end_time => cpc = "t1"
           /\ cl'.ack # cl.ack => (cpc = "recv_ack" /\ cl.ack = "none")
           /\ transfer_stats' # transfer_stats => cpc = "stats"
      /\ cpc = "recv_ack" => (cl.end_time = now /\ wire = cl.header \o cl.payload)
      /\ (cpc = "stats" /\ ret' = "True") =>
           /\ cl.ack # "none"
           /\ transfer_stats'.transfer_time = sending
    ]_vars

\* a call returned True whose two writes took one unit of time each and
\* whose wait for the acknowledgement took another
C12_Witness ==
  /\ cpc = "idle" /\ ret = "True"
  /\ sending = 2 * MaxDelay
  /\ now = sending + MaxDelay
  /\ transfer_stats.transfer_time = sending
  /\ cl.ack = "ack"

\* C18: the name field of every header that send_file has put on the
\* connection holds no delimiter: the header has exactly two of them.
C18_NameHasNoDelimiter ==
  (Len(wire) > 0) =>
    /\ SliceTo(wire, Len(cl.header)) = cl.header
    /\ ~Contains(cl.filename, "|")
    /\ NumPipes(cl.header) = 2

\* C19: the client leaves no socket open on a failure: a socket whose
\* connect (or handshake) failed is not left open, and after a call of
\* send_file that failed in its try block (the read of the file, a sendall
\* or the recv raised) the socket is closed.
C19_ClosedOnAllExitPaths ==
  [][ /\ csock' # "unconnected"
      /\ (cpc # "idle" /\ cpc' = "idle" /\ ret' = "False") => csock' = "closed"
    ]_vars

\* C21: transfer_stats is written in one step only, the one after the read
\* of the acknowledgement has returned, and that step returns True; every
\* other step of send_file leaves it as it is, so a call that returns False
\* (no socket, no file, a failed read of the file, a failed sendall, a
\* failed read of the acknowledgement) ends with the bytes_sent and
\* transfer_time that the client had before the call.
C21_FailureKeepsStats ==
  [][ /\ transfer_stats' # transfer_stats =>
           /\ cpc = "stats" /\ cl.ack # "none"
           /\ cpc' = "idle" /\ ret' = "True"
      /\ (ret' = "False" /\ (cpc # "idle" \/ calls' # calls)) =>
           /\ cpc' = "idle"
           /\ transfer_stats' = transfer_stats
      /\ (cpc # "stats" /\ cpc' # "idle") => transfer_stats' = transfer_stats
    ]_vars

\* a second call sent its whole frame and failed in the read of the
\* acknowledgement: the statistics are still those of the first call, a
\* file of ten bytes sent in one unit of time
C21_Witness ==
  /\ cpc = "idle" /\ ret = "False" /\ calls = 2
  /\ cl.ack = "none"
  /\ Len(wire) > 0 /\ wire = cl.header \o cl.payload
  /\ Len(wire) # 16 /\ sending = 0
  /\ transfer_stats.bytes_sent = 16
  /\ transfer_stats.transfer_time = 1

\* ---------------------------------------------- claims on the two listeners

\* the two handlers are in the same state but for their destination paths
SameHandlerState ==
  /\ hpc[1] = hpc[2]
  /\ h[1] = h[2]
  /\ pos[1] = pos[2]
  /\ peerClosed[1] = peerClosed[2]
  /\ herr[1] = herr[2]
  /\ wrote[1] = wrote[2]
  /\ acks[1] = acks[2]
  /\ sockClosed[1] = sockClosed[2]

\* the destination of each handler: TLS_name for connection 1, TCP_name for
\* connection 2
TwinPath(c) == PathOf(IF c = 1 THEN "TLS" ELSE "TCP", h[c].filename)

\* each handler that has opened its file has its own path in received_files,
\* a handler's file holds the bytes it persisted, and no other path exists
OwnFiles ==
  /\ \A c \in Conns :
       /\ hpc[c] = "write" => TwinPath(c) \in DOMAIN fs
       /\ wrote[c] =>
            /\ TwinPath(c) \in DOMAIN fs
            /\ fs[TwinPath(c)] = Persisted(h[c])
  /\ DOMAIN fs \subseteq { TwinPath(c) : c \in Conns }

\* C13: a handler of the TLS server and a handler of the plain server that
\* receive the same bytes in the same chunks go through the same states:
\* whenever one of them has taken a step, the step of the other on the same
\* chunk brings it to the same locals, place, error, acknowledgement and
\* socket state; and each writes its own file, TLS_name or TCP_name, which
\* holds the bytes it persisted, so both files hold the same bytes and
\* neither handler writes the path of the other.
C13_TlsAndPlainAgree ==
  [][ /\ (use_tls' = use_tls /\ Progress(Me) < Progress(Twin(Me))) =>
           SameHandlerState'
      /\ (Progress(1) = Progress(2))' => SameHandlerState'
      /\ OwnFiles'
    ]_vars

\* both handlers received the same file in two chunks, wrote it and
\* acknowledged it: two files with the same bytes
C13_Witness ==
  /\ SameHandlerState
  /\ stream[1] = Frame(<< "a" >>, << "a", "E9" >>)
  /\ partial[1] /\ partial[2]
  /\ hpc[1] = "done" /\ acks[1] = 1 /\ acks[2] = 1
  /\ DOMAIN fs = { << "TLS", << "a" >> >>, << "TCP", << "a" >> >> }
  /\ fs[<< "TLS", << "a" >> >>] = << "a", "C3", "A9" >>
  /\ fs[<< "TCP", << "a" >> >>] = << "a", "C3", "A9" >>

\* ------------------------------------------- claims on acceptor and handlers

\* C14: the acceptor waits on no connection it has accepted: while one
\* connection waits in the backlog and another, accepted earlier, has not
\* finished its TLS handshake or its framing, the thread of start() is at its
\* accept or on its way to it (the loop test, the start of a handler
\* thread), never inside the handshake of the earlier connection.
C14_AcceptorNeverWaits ==
  \A c \in Conns : \A d \in Conns \ { c } :
    ( /\ hpc[c] = "queued"
      /\ hpc[d] \in { "accepted", "recv" }
      /\ spc \in { "loop", "accept", "wrap", "spawn" } )
    => spc # "wrap"

\* C15: no step of stop(), called from another thread or from the finally of
\* start(), changes a handler's buffer, locals, place, connection or file;
\* and a connection that was accepted and had received nothing when stop()
\* set running to False is served like any other: once its handler has
\* returned, its connection is closed, and unless an I/O or header error
\* ended it, a header it received has led to a written file and to one
\* acknowledgement.
C15_StopLeavesHandlers ==
  [][ /\ (stpc' # stpc \/ (spc \in { "finally", "fin_close" } /\ spc' # spc)) =>
           UNCHANGED hvars
      /\ \A c \in atStop' :
           /\ hpc'[c] \in { "accepted", "leaked", "recv", "save", "write", "ack", "close", "done" }
           /\ sockClosed'[c] => hpc'[c] = "done"
           /\ hpc'[c] = "done" =>
                /\ sockClosed'[c]
                /\ (herr'[c] = "none" /\ h'[c].header_received) =>
                     (wrote'[c] /\ acks'[c] = 1)
    ]_vars

\* stop() has returned, and a connection that had received nothing when
\* stop() took effect has since been framed, saved, acknowledged and closed
C15_Witness ==
  /\ stpc = "done"
  /\ 1 \in atStop
  /\ stream[1] = Frame(<< "a" >>, << "a", "a" >>)
  /\ hpc[1] = "done" /\ wrote[1] /\ acks[1] = 1 /\ sockClosed[1]

\* C20: once a call of stop() has set running to False, running is False in
\* every later state: no step sets it back to True.
C20_RunningFalseAfterStop ==
  stpc \in { "close", "done" } => ~running

====
